---- MODULE Spec2Model ----
(***************************************************************************)
(* Model of the company-details manager (src/company details/              *)
(* company_manager.py): the in-memory record, the six group editors, the   *)
(* JSON / INI / CSV / text writers, the JSON and INI readers and the       *)
(* command-line entry point; and of the logo manager (src/JKWI LOGO PNG/   *)
(* logo_manager.py): the registry of LogoInfo objects, its two indexes and *)
(* the queries on them.                                                    *)
(*                                                                         *)
(* Python values are modelled as records of one shape (PyStr, PyFloat,     *)
(* PyNone) so that any two of them can be compared; a dict is a function   *)
(* from its keys.  A file holds either nothing (absent), malformed text,   *)
(* or the document the writer put there.                                   *)
(***************************************************************************)
EXTENDS Integers, Sequences, FiniteSets, TLC

VARIABLES company_data, files, ret, console, raised, last, nEdits, nIO,
          LOGO_REGISTRY, logo_index, category_index, held, nQ, session

\* the state of the company-details manager and of its caller
cvars == <<company_data, files, console, raised, nEdits, nIO, session>>

\* the state of the logo manager and the list its caller holds
lvars == <<LOGO_REGISTRY, logo_index, category_index, held, nQ>>

vars == <<company_data, files, ret, console, raised, last, nEdits, nIO,
          LOGO_REGISTRY, logo_index, category_index, held, nQ, session>>

(***************************************************************************)
(* Bounds of the model.                                                    *)
(***************************************************************************)
\* number of group-editor calls in one behaviour
MaxEdits == 2
\* number of prompts of one editor call that get a non-empty answer
MaxTyped == 1
\* number of reader / writer / command-line calls in one behaviour
MaxIO == 3
\* number of logo queries and caller list modifications in one behaviour
MaxQueries == 3
\* number of editor calls in one --edit session
MaxSessionEdits == 1

(***************************************************************************)
(* Python values.                                                          *)
(***************************************************************************)
PyStr(s) == [t |-> "str", s |-> s, n |-> 0, e |-> 0]

\* a finite float whose value is n / 10^e, n without trailing zeros
PyFloat(n, e) == [t |-> "float", s |-> "", n |-> n, e |-> e]

\* the floats nan, inf and -inf
PyFloatSpecial(s) == [t |-> "float", s |-> s, n |-> 0, e |-> 0]

PyNone == [t |-> "none", s |-> "", n |-> 0, e |-> 0]

\* truth value of a Python string: "x or y" picks y when x is empty
Truthy(v) ==
    /\ v.t # "none"
    /\ ~(v.t = "str" /\ v.s = "")
    /\ ~(v.t = "float" /\ v.s = "" /\ v.n = 0)

(***************************************************************************)
(* Characters and strings.                                                 *)
(***************************************************************************)
Char(s, i) == SubSeq(s, i, i)

DigitChars == "0123456789"

UpperChars == "ABCDEFGHIJKLMNOPQRSTUVWXYZ"

LowerChars == "abcdefghijklmnopqrstuvwxyz"

IsDigit(c) == \E i \in 1..10 : Char(DigitChars, i) = c

DigitVal(c) == (CHOOSE i \in 1..10 : Char(DigitChars, i) = c) - 1

IsSpace(c) == c = " "

LowerChar(c) ==
    IF \E i \in 1..26 : Char(UpperChars, i) = c
    THEN Char(LowerChars, CHOOSE i \in 1..26 : Char(UpperChars, i) = c)
    ELSE c

RECURSIVE Lower(_)
Lower(s) == IF Len(s) = 0 THEN "" ELSE LowerChar(Char(s, 1)) \o Lower(Tail(s))

RECURSIVE LStrip(_)
LStrip(s) == IF Len(s) > 0 /\ IsSpace(Char(s, 1)) THEN LStrip(Tail(s)) ELSE s

RECURSIVE RStrip(_)
RStrip(s) ==
    IF Len(s) > 0 /\ IsSpace(Char(s, Len(s)))
    THEN RStrip(SubSeq(s, 1, Len(s) - 1))
    ELSE s

Strip(s) == LStrip(RStrip(s))

RECURSIVE AllDigits(_)
AllDigits(s) == Len(s) = 0 \/ (IsDigit(Char(s, 1)) /\ AllDigits(Tail(s)))

RECURSIVE DigitsVal(_)
DigitsVal(s) ==
    IF Len(s) = 0 THEN 0
    ELSE 10 * DigitsVal(SubSeq(s, 1, Len(s) - 1)) + DigitVal(Char(s, Len(s)))

RECURSIVE IndexOf(_, _, _)
\* position of the first c in s at or after i, 0 when there is none
IndexOf(s, c, i) ==
    IF i > Len(s) THEN 0
    ELSE IF Char(s, i) = c THEN i ELSE IndexOf(s, c, i + 1)

\* q in s of Python: q occurs in s as a substring ("" occurs in every s)
Contains(s, q) ==
    \/ q = ""
    \/ \E i \in 1..(Len(s) - Len(q) + 1) : SubSeq(s, i, i + Len(q) - 1) = q

RECURSIVE Pow10(_)
Pow10(k) == IF k = 0 THEN 1 ELSE 10 * Pow10(k - 1)

RECURSIVE NatStr(_)
NatStr(n) ==
    IF n < 10 THEN Char(DigitChars, n + 1)
    ELSE NatStr(n \div 10) \o Char(DigitChars, (n % 10) + 1)

RECURSIVE ZeroPad(_, _)
ZeroPad(s, w) == IF Len(s) >= w THEN s ELSE ZeroPad("0" \o s, w)

(***************************************************************************)
(* float(text) and str(float) of Python, for plain decimal notation        *)
(* (optional surrounding blanks, optional sign, digits with at most one    *)
(* point) and the literals nan, inf, infinity.  Exponent and underscore    *)
(* notation are outside the texts the model types in.                      *)
(***************************************************************************)
RECURSIVE Normalize(_, _)
Normalize(n, e) ==
    IF e > 0 /\ n % 10 = 0 THEN Normalize(n \div 10, e - 1) ELSE PyFloat(n, e)

\* the unsigned part of a float literal: [ok, v]
ParseUnsigned(b) ==
    LET p == IndexOf(b, ".", 1)
        ip == IF p = 0 THEN b ELSE SubSeq(b, 1, p - 1)
        fp == IF p = 0 THEN "" ELSE SubSeq(b, p + 1, Len(b))
    IN  IF Lower(b) = "nan" THEN [ok |-> TRUE, v |-> PyFloatSpecial("nan")]
        ELSE IF Lower(b) \in {"inf", "infinity"}
             THEN [ok |-> TRUE, v |-> PyFloatSpecial("inf")]
        ELSE IF AllDigits(ip) /\ AllDigits(fp) /\ Len(ip) + Len(fp) > 0
             THEN [ok |-> TRUE,
                   v |-> Normalize(DigitsVal(ip \o fp), Len(fp))]
        ELSE [ok |-> FALSE, v |-> PyNone]

Negate(v) ==
    IF v.s = "inf" THEN PyFloatSpecial("-inf")
    ELSE IF v.s = "nan" THEN v
    ELSE PyFloat(0 - v.n, v.e)

\* float(text): ok = FALSE stands for ValueError
ParseFloat(text) ==
    LET b == Strip(text)
        c == IF Len(b) > 0 THEN Char(b, 1) ELSE ""
        u == ParseUnsigned(IF c \in {"+", "-"} THEN Tail(b) ELSE b)
    IN  IF u.ok /\ c = "-" THEN [ok |-> TRUE, v |-> Negate(u.v)] ELSE u

\* str(x) of a float x
FloatStr(v) ==
    IF v.s # "" THEN v.s
    ELSE LET a == IF v.n < 0 THEN 0 - v.n ELSE v.n
             ip == NatStr(a \div Pow10(v.e))
             fp == IF v.e = 0 THEN "0" ELSE ZeroPad(NatStr(a % Pow10(v.e)), v.e)
         IN  (IF v.n < 0 THEN "-" ELSE "") \o ip \o "." \o fp

\* str(x) of any value the record can hold
ToStr(v) == IF v.t = "float" THEN FloatStr(v) ELSE v.s

\* x >= 0 for a float x (false for nan)
NonNegative(v) == v.t = "float" /\ v.s \in {"", "inf"} /\ v.n >= 0

(***************************************************************************)
(* The record.                                                             *)
(***************************************************************************)
CompanyFields == <<"name", "registration_number", "type">>

AddressFields == <<"street", "suburb", "province", "postal_code", "country">>

ContactFields == <<"email", "phone", "whatsapp", "website">>

BankingFields == <<"account_name", "bank", "branch_code", "account_number",
                   "account_type", "swift_code">>

TaxFields == <<"vat_number", "tax_reference", "default_tax_rate">>

BusinessFields == <<"industry", "established_year", "description">>

FieldSeq == CompanyFields \o AddressFields \o ContactFields \o BankingFields
            \o TaxFields \o BusinessFields

Range(q) == {q[i] : i \in 1..Len(q)}

Fields == Range(FieldSeq)

StringFields == Fields \ {"default_tax_rate"}

DefaultData ==
    [name |-> PyStr("JK WINNERS INVESTMENT(PTY)Ltd"),
     registration_number |-> PyStr("2013/047375/07"),
     type |-> PyStr("Private Company"),
     street |-> PyStr("22 Sloane Street"),
     suburb |-> PyStr("Bryanston"),
     province |-> PyStr("GAUTENG"),
     postal_code |-> PyStr("1619"),
     country |-> PyStr("South Africa"),
     email |-> PyStr("info@jkwinnersinvestment.co.za"),
     phone |-> PyStr("010 085 3553"),
     whatsapp |-> PyStr("0839887569"),
     website |-> PyStr(""),
     account_name |-> PyStr("JK Winners Investment (Pty)Ltd"),
     bank |-> PyStr("FNB"),
     branch_code |-> PyStr("250655"),
     account_number |-> PyStr("63151527133"),
     account_type |-> PyStr("Business"),
     swift_code |-> PyStr(""),
     vat_number |-> PyStr(""),
     tax_reference |-> PyStr(""),
     default_tax_rate |-> PyFloat(15, 0),
     industry |-> PyStr("Investment"),
     established_year |-> PyStr("2013"),
     description |-> PyStr("Investment Company")]

(***************************************************************************)
(* The group editors.  Every prompt is "input(...) or current value": an   *)
(* empty answer keeps the field, any other answer replaces it.             *)
(***************************************************************************)
\* answers typed at the prompts of the string fields
StrInputs == {"", "Acme"}

\* answers typed at the tax-rate prompt
TaxInputs == {"", "abc", "12.5", "-5", "1.2.3", " 7.25"}

\* the answer vectors of an editor with k string prompts
Answers(k) ==
    {a \in [1..k -> StrInputs] :
        Cardinality({i \in 1..k : a[i] # ""}) <= MaxTyped}

\* an editor that stores every answer, the empty one too
InputOr_StoreAnswer(answer, current) == PyStr(answer)

InputOr(answer, current) == IF answer # "" THEN PyStr(answer) ELSE current

\* data after the prompts of the fields fs were answered with a
EditGroup(data, fs, a) ==
    [f \in DOMAIN data |->
        IF \E i \in 1..Len(fs) : fs[i] = f /\ i \in DOMAIN a
        THEN InputOr(a[CHOOSE i \in 1..Len(fs) : fs[i] = f], data[f])
        ELSE data[f]]

edit_company_info(data, a) == EditGroup(data, CompanyFields, a)

edit_address(data, a) == EditGroup(data, AddressFields, a)

edit_contact(data, a) == EditGroup(data, ContactFields, a)

edit_banking(data, a) == EditGroup(data, BankingFields, a)

edit_business(data, a) == EditGroup(data, BusinessFields, a)

InvalidTaxRate == "Invalid tax rate, keeping current value"

\* an editor without the try/except around float()
TaxRateAccepted_Unchecked(rate) == rate # ""

\* the rate is replaced only when an answer was typed and float() takes it
TaxRateAccepted(rate) == rate # "" /\ ParseFloat(rate).ok

\* an editor that gives up the whole call when the rate is rejected
edit_tax_AllOrNothing(data, a, rate) ==
    LET d == EditGroup(data, <<"vat_number", "tax_reference">>, a)
    IN  IF TaxRateAccepted(rate)
        THEN [d EXCEPT !["default_tax_rate"] = ParseFloat(rate).v]
        ELSE IF rate # "" THEN data
        ELSE d

\* a holds the answers for vat_number and tax_reference, rate the third one
edit_tax(data, a, rate) ==
    LET d == EditGroup(data, <<"vat_number", "tax_reference">>, a)
    IN  IF TaxRateAccepted(rate)
        THEN [d EXCEPT !["default_tax_rate"] = ParseFloat(rate).v]
        ELSE d

edit_tax_output(rate) ==
    IF rate # "" /\ ~ParseFloat(rate).ok
    THEN <<"--- Tax Information ---", InvalidTaxRate>>
    ELSE <<"--- Tax Information ---">>

NoError == [type |-> "", arg |-> ""]

\* the --edit session: where it stands (none: no session was started,
\* editing: a call of interactive_edit is due, done: it returned, crashed:
\* it ended by an exception), the calls of interactive_edit that have not
\* returned, and the calls of update_all_formats made so far
Session(pc, depth, updates) == [pc |-> pc, depth |-> depth, updates |-> updates]

NoSession == Session("none", 0, 0)

\* the call just made: its name, the answers typed (editors), the tax-rate
\* answer or the format asked for, the data argument (writers), and whether
\* it repeats the call made just before it (same writer, same data)
Call(op, a, rate) ==
    [op |-> op, a |-> a, rate |-> rate, data |-> <<>>, again |-> FALSE]

CallWith(op, data) ==
    [op |-> op, a |-> <<>>, rate |-> "", data |-> data,
     again |-> (last.op = op /\ last.data = data)]

Edited(newData, out, call) ==
    /\ nEdits < MaxEdits
    /\ nEdits' = nEdits + 1
    /\ company_data' = newData
    /\ console' = out
    /\ raised' = NoError
    /\ last' = call
    /\ UNCHANGED <<files, ret, nIO, session>>
    /\ UNCHANGED lvars

EditCompanyInfo ==
    \E a \in Answers(3) :
        Edited(edit_company_info(company_data, a),
               <<"--- Company Information ---">>,
               Call("edit_company_info", a, ""))

EditAddress ==
    \E a \in Answers(5) :
        Edited(edit_address(company_data, a),
               <<"--- Address Information ---">>,
               Call("edit_address", a, ""))

EditContact ==
    \E a \in Answers(4) :
        Edited(edit_contact(company_data, a),
               <<"--- Contact Information ---">>,
               Call("edit_contact", a, ""))

EditBanking ==
    \E a \in Answers(6) :
        Edited(edit_banking(company_data, a),
               <<"--- Banking Information ---">>,
               Call("edit_banking", a, ""))

EditTax ==
    \E a \in Answers(2), rate \in TaxInputs :
        Edited(edit_tax(company_data, a, rate),
               edit_tax_output(rate),
               Call("edit_tax", a, rate))

EditBusiness ==
    \E a \in Answers(3) :
        Edited(edit_business(company_data, a),
               <<"--- Business Information ---">>,
               Call("edit_business", a, ""))

(***************************************************************************)
(* Files and documents.                                                    *)
(***************************************************************************)
JsonFile == "company_details.json"

IniFile == "company_details.ini"

CsvFile == "company_details.csv"

TextFile == "COMPANY DETAILS"

FileNames == {JsonFile, IniFile, CsvFile, TextFile}

Absent == [st |-> "absent"]

\* text that the format's parser rejects
Malformed == [st |-> "malformed"]

File(doc) == [st |-> "ok", doc |-> doc]

\* a directory under the file's name: open() raises IsADirectoryError
Directory == [st |-> "directory"]

\* a value returned by a reader: None or a dict
NoResult == [t |-> "none"]

Dict(d) == [t |-> "dict", d |-> d]

EmptyDict == [k \in {} |-> PyNone]

IsDict(r) == r.t = "dict"

\* "if data:" -- None and the empty dict are false
TruthyResult(r) == IsDict(r) /\ DOMAIN r.d # {}

RECURSIVE FirstMissing(_, _)
\* the first key of keys that data lacks (the KeyError), "" when none
FirstMissing(data, keys) ==
    IF keys = <<>> THEN ""
    ELSE IF Head(keys) \notin DOMAIN data THEN Head(keys)
    ELSE FirstMissing(data, Tail(keys))

KeyError(k) == [type |-> "KeyError", arg |-> k]

IsADirectoryError(f) == [type |-> "IsADirectoryError", arg |-> f]

\* an encoder that trusts the full_address the record carries
FullAddress_Stale(data) ==
    IF "full_address" \in DOMAIN data THEN ToStr(data["full_address"])
    ELSE ToStr(data["street"]) \o ", " \o ToStr(data["suburb"]) \o ", "
         \o ToStr(data["province"]) \o " " \o ToStr(data["postal_code"])

\* f"{street}, {suburb}, {province} {postal_code}"
FullAddress(data) ==
    ToStr(data["street"]) \o ", " \o ToStr(data["suburb"]) \o ", "
    \o ToStr(data["province"]) \o " " \o ToStr(data["postal_code"])

(***************************************************************************)
(* JSON: json.dump writes a str as a JSON string and a float as a JSON     *)
(* number, json.load reads them back as str and float.                     *)
(***************************************************************************)
JsonDump(v) ==
    [v EXCEPT !.t = IF v.t = "str" THEN "string"
                    ELSE IF v.t = "float" THEN "number" ELSE "null"]

JsonLoad(j) ==
    [j EXCEPT !.t = IF j.t = "string" THEN "str"
                    ELSE IF j.t = "number" THEN "float" ELSE "none"]

IsLeaf(x) == "t" \in DOMAIN x

RECURSIVE JsonEncode(_)
JsonEncode(x) ==
    IF IsLeaf(x) THEN JsonDump(x) ELSE [k \in DOMAIN x |-> JsonEncode(x[k])]

RECURSIVE JsonDecode(_)
JsonDecode(j) ==
    IF IsLeaf(j) THEN JsonLoad(j) ELSE [k \in DOMAIN j |-> JsonDecode(j[k])]

\* the nested dict write_json builds from data
structured_data(data) ==
    [company |->
        [name |-> data["name"],
         registration_number |-> data["registration_number"],
         type |-> data["type"],
         address |->
            [street |-> data["street"],
             suburb |-> data["suburb"],
             province |-> data["province"],
             postal_code |-> data["postal_code"],
             country |-> data["country"],
             full_address |-> PyStr(FullAddress(data))],
         contact |->
            [email |-> data["email"],
             phone |-> data["phone"],
             whatsapp |-> data["whatsapp"],
             website |-> data["website"]],
         banking |->
            [account_name |-> data["account_name"],
             bank |-> data["bank"],
             branch_code |-> data["branch_code"],
             account_number |-> data["account_number"],
             account_type |-> data["account_type"],
             swift_code |-> data["swift_code"]],
         tax |->
            [vat_number |-> data["vat_number"],
             tax_reference |-> data["tax_reference"],
             default_tax_rate |-> data["default_tax_rate"]],
         business |->
            [industry |-> data["industry"],
             established_year |-> data["established_year"],
             description |-> data["description"]]]]

\* the outcome of a writer: the files afterwards and the exception raised
\* open(file_path, 'w'), then the dump into the emptied file
Wrote(fs, f, doc) ==
    IF fs[f].st = "directory"
    THEN [files |-> fs, raised |-> IsADirectoryError(f)]
    ELSE [files |-> [fs EXCEPT ![f] = File(doc)], raised |-> NoError]

Failed(fs, k) == [files |-> fs, raised |-> KeyError(k)]

write_json(fs, data) ==
    LET k == FirstMissing(data, FieldSeq)
    IN  IF k # "" THEN Failed(fs, k)
        ELSE Wrote(fs, JsonFile, JsonEncode(structured_data(data)))

\* the outcome of a reader: the value returned and the lines printed
Returned(r, out) == [ret |-> r, console |-> out]

\* a reader that falls back to the whole document and to an empty dict
read_json_Lenient(fs) ==
    LET f == fs[JsonFile]
    IN  IF f.st = "absent" THEN Returned(Dict(EmptyDict), <<>>)
        ELSE IF f.st = "malformed"
        THEN Returned(NoResult, <<"Error reading JSON: JSONDecodeError">>)
        ELSE IF f.st = "directory"
        THEN Returned(NoResult, <<"Error reading JSON: IsADirectoryError">>)
        ELSE IF "company" \notin DOMAIN f.doc
        THEN Returned(Dict(JsonDecode(f.doc)), <<>>)
        ELSE Returned(Dict(JsonDecode(f.doc["company"])), <<>>)

read_json(fs) ==
    LET f == fs[JsonFile]
    IN  IF f.st = "absent"
        THEN Returned(NoResult, <<"File not found: company_details.json">>)
        ELSE IF f.st = "malformed"
        THEN Returned(NoResult, <<"Error reading JSON: JSONDecodeError">>)
        ELSE IF f.st = "directory"
        THEN Returned(NoResult, <<"Error reading JSON: IsADirectoryError">>)
        ELSE IF "company" \notin DOMAIN f.doc
        THEN Returned(NoResult, <<"Error reading JSON: 'company'">>)
        ELSE Returned(Dict(JsonDecode(f.doc["company"])), <<>>)

(***************************************************************************)
(* INI: configparser keeps sections and options in insertion order, turns  *)
(* every value into its str() on assignment, and on reading lower-cases    *)
(* the option names and strips the blanks around a value.  The text is     *)
(* modelled as the sequence of its sections.  Values are free of '%' and   *)
(* of line breaks.                                                         *)
(***************************************************************************)
Option(k, v) == [k |-> k, v |-> v]

Section(name, data, fs) ==
    [name |-> name,
     opts |-> [i \in 1..Len(fs) |-> Option(fs[i], ToStr(data[fs[i]]))]]

AddressSection(data) ==
    LET sec == Section("address", data, AddressFields)
    IN  [sec EXCEPT !.opts = @ \o <<Option("full_address", FullAddress(data))>>]

\* a writer that fills the tax section before the banking section
config_TaxFirst(data) ==
    <<Section("company", data, CompanyFields),
      AddressSection(data),
      Section("contact", data, ContactFields),
      Section("tax", data, TaxFields),
      Section("banking", data, BankingFields),
      Section("business", data, BusinessFields)>>

config(data) ==
    <<Section("company", data, CompanyFields),
      AddressSection(data),
      Section("contact", data, ContactFields),
      Section("banking", data, BankingFields),
      Section("tax", data, TaxFields),
      Section("business", data, BusinessFields)>>

\* a writer that opens the file for appending instead of overwriting it
write_ini_Append(fs, data) ==
    LET k == FirstMissing(data, FieldSeq)
    IN  IF k # "" THEN Failed(fs, k)
        ELSE IF fs[IniFile].st = "ok"
        THEN Wrote(fs, IniFile, fs[IniFile].doc \o config(data))
        ELSE Wrote(fs, IniFile, config(data))

write_ini(fs, data) ==
    LET k == FirstMissing(data, FieldSeq)
    IN  IF k # "" THEN Failed(fs, k) ELSE Wrote(fs, IniFile, config(data))

RECURSIVE FlattenOpts(_, _)
FlattenOpts(opts, d) ==
    IF opts = <<>> THEN d
    ELSE FlattenOpts(Tail(opts),
            (Lower(Head(opts).k) :> PyStr(Strip(Head(opts).v))) @@ d)

RECURSIVE FlattenSections(_, _)
FlattenSections(secs, d) ==
    IF secs = <<>> THEN d
    ELSE FlattenSections(Tail(secs), FlattenOpts(Head(secs).opts, d))

\* a reader that treats a file that does not exist as an error
read_ini_Strict(fs) ==
    LET f == fs[IniFile]
    IN  IF f.st \in {"absent", "malformed"}
        THEN Returned(NoResult, <<"Error reading INI: ParsingError">>)
        ELSE IF f.st = "directory" THEN Returned(Dict(EmptyDict), <<>>)
        ELSE Returned(Dict(FlattenSections(f.doc, EmptyDict)), <<>>)

\* config.read() skips a file it cannot open: no section, empty dict
read_ini(fs) ==
    LET f == fs[IniFile]
    IN  IF f.st \in {"absent", "directory"} THEN Returned(Dict(EmptyDict), <<>>)
        ELSE IF f.st = "malformed"
        THEN Returned(NoResult, <<"Error reading INI: ParsingError">>)
        ELSE Returned(Dict(FlattenSections(f.doc, EmptyDict)), <<>>)

(***************************************************************************)
(* CSV: one header row and one data row; csv writes str() of each value.   *)
(* The file is opened (and truncated) before the row is built.             *)
(***************************************************************************)
fieldnames ==
    <<"company_name", "registration_number", "company_type", "street_address",
      "suburb", "province", "postal_code", "country", "email", "phone",
      "whatsapp", "website", "account_name", "bank", "branch_code",
      "account_number", "account_type", "vat_number", "tax_reference",
      "default_tax_rate", "industry", "established_year", "description">>

\* a row dict that takes the bank column from branch_code and the
\* branch_code column from bank
CsvSource_Swapped ==
    <<"name", "registration_number", "type", "street",
      "suburb", "province", "postal_code", "country", "email", "phone",
      "whatsapp", "website", "account_name", "branch_code", "bank",
      "account_number", "account_type", "vat_number", "tax_reference",
      "default_tax_rate", "industry", "established_year", "description">>

\* the record field written under each column, in the order of the row dict
CsvSource ==
    <<"name", "registration_number", "type", "street",
      "suburb", "province", "postal_code", "country", "email", "phone",
      "whatsapp", "website", "account_name", "bank", "branch_code",
      "account_number", "account_type", "vat_number", "tax_reference",
      "default_tax_rate", "industry", "established_year", "description">>

CsvDoc(rows) == [header |-> fieldnames, rows |-> rows]

\* the file is opened, and the header written, before the row is built
write_csv(fs, data) ==
    LET k == FirstMissing(data, CsvSource)
    IN  IF fs[CsvFile].st = "directory"
        THEN [files |-> fs, raised |-> IsADirectoryError(CsvFile)]
        ELSE IF k # ""
        THEN [files |-> [fs EXCEPT ![CsvFile] = File(CsvDoc(<<>>))],
              raised |-> KeyError(k)]
        ELSE Wrote(fs, CsvFile,
                CsvDoc(<<[i \in 1..Len(CsvSource) |-> ToStr(data[CsvSource[i]])]>>))

(***************************************************************************)
(* Text: the fixed template, one string per line.                          *)
(***************************************************************************)
ToBeFilled == "[To be filled]"

\* a template that prints the field whatever it holds
OrPlaceholder_Raw(v) == ToStr(v)

OrPlaceholder(v) == IF Truthy(v) THEN ToStr(v) ELSE ToBeFilled

\* the keys the template reads, in order (no website, no swift_code)
TextSource ==
    <<"name", "registration_number", "type", "street", "suburb", "province",
      "postal_code", "country", "email", "phone", "whatsapp", "account_name",
      "bank", "branch_code", "account_number", "account_type", "vat_number",
      "tax_reference", "default_tax_rate", "industry", "established_year",
      "description">>

content(data) ==
    <<"Company Name",
      "    " \o ToStr(data["name"]),
      "",
      "Registration Number",
      "    " \o ToStr(data["registration_number"]),
      "",
      "Company Type",
      "    " \o ToStr(data["type"]),
      "",
      "Address",
      "    " \o ToStr(data["street"]),
      "    " \o ToStr(data["suburb"]),
      "    " \o ToStr(data["province"]),
      "    " \o ToStr(data["postal_code"]),
      "    " \o ToStr(data["country"]),
      "",
      "Contact Details",
      "    Email: " \o ToStr(data["email"]),
      "    Phone: " \o ToStr(data["phone"]),
      "    WhatsApp: " \o ToStr(data["whatsapp"]),
      "",
      "Banking Details",
      "    Account Name: " \o ToStr(data["account_name"]),
      "    Bank: " \o ToStr(data["bank"]),
      "    Branch Code: " \o ToStr(data["branch_code"]),
      "    Account Number: " \o ToStr(data["account_number"]),
      "    Account Type: " \o ToStr(data["account_type"]),
      "",
      "Tax Information",
      "    VAT Number: " \o OrPlaceholder(data["vat_number"]),
      "    Tax Reference: " \o OrPlaceholder(data["tax_reference"]),
      "    Default Tax Rate: " \o ToStr(data["default_tax_rate"]) \o "%",
      "",
      "Business Information",
      "    Industry: " \o ToStr(data["industry"]),
      "    Established: " \o ToStr(data["established_year"]),
      "    Description: " \o ToStr(data["description"])>>

\* a writer that saves the text under the name of the CSV file
write_text_WrongPath(fs, data) ==
    LET k == FirstMissing(data, TextSource)
    IN  IF k # "" THEN Failed(fs, k) ELSE Wrote(fs, CsvFile, content(data))

write_text(fs, data) ==
    LET k == FirstMissing(data, TextSource)
    IN  IF k # "" THEN Failed(fs, k) ELSE Wrote(fs, TextFile, content(data))

(***************************************************************************)
(* update_all_formats: the four writers in turn; an exception of one of    *)
(* them ends the call there.                                               *)
(***************************************************************************)
\* a call that goes on to the next writer after one of them has failed
Then_KeepGoing(r, w, out) ==
    IF r.raised # NoError
    THEN [files |-> w.files, raised |-> r.raised, console |-> r.console]
    ELSE [files |-> w.files, raised |-> w.raised,
          console |-> IF w.raised = NoError
                      THEN r.console \o <<out>> ELSE r.console]

\* r: the call so far; w: the next writer run on r.files; out: its line
Then(r, w, out) ==
    IF r.raised # NoError THEN r
    ELSE [files |-> w.files, raised |-> w.raised,
          console |-> IF w.raised = NoError
                      THEN r.console \o <<out>> ELSE r.console]

update_all_formats(fs, data) ==
    LET r0 == [files |-> fs, raised |-> NoError,
               console |-> <<"Updating all file formats...">>]
        r1 == Then(r0, write_json(r0.files, data), "JSON file updated")
        r2 == Then(r1, write_ini(r1.files, data), "INI file updated")
        r3 == Then(r2, write_csv(r2.files, data), "CSV file updated")
        r4 == Then(r3, write_text(r3.files, data), "Text file updated")
    IN  IF r4.raised = NoError
        THEN [r4 EXCEPT !.console = @ \o <<"All formats updated successfully!">>]
        ELSE r4

(***************************************************************************)
(* display_data and the command line.                                      *)
(***************************************************************************)
DisplaySource ==
    <<"name", "registration_number", "street", "suburb", "province",
      "postal_code", "email", "phone", "whatsapp", "bank", "account_number">>

display_lines(data) ==
    <<"Company: " \o ToStr(data["name"]),
      "Registration: " \o ToStr(data["registration_number"]),
      "Address: " \o FullAddress(data),
      "Contact: " \o ToStr(data["email"]) \o " | " \o ToStr(data["phone"])
          \o " | WhatsApp: " \o ToStr(data["whatsapp"]),
      "Bank: " \o ToStr(data["bank"]) \o " - " \o ToStr(data["account_number"])>>

\* what display_data prints and raises
display_data(data) ==
    LET k == FirstMissing(data, DisplaySource)
    IN  IF k # "" THEN [console |-> <<>>, raised |-> KeyError(k)]
        ELSE [console |-> display_lines(data), raised |-> NoError]

\* the values --read accepts
ReadChoices == {"json", "ini", "csv", "txt"}

\* main() with --read fmt: what it returns to the shell and prints
main_read(fs, fmt) ==
    IF fmt = "json"
    THEN LET r == read_json(fs)
         IN  [ret |-> r.ret, raised |-> NoError,
              console |-> IF TruthyResult(r.ret)
                          THEN r.console \o <<"json.dumps(data, indent=2)">>
                          ELSE r.console]
    ELSE IF fmt = "ini"
    THEN LET r == read_ini(fs)
             d == IF TruthyResult(r.ret)
                  THEN display_data(r.ret.d)
                  ELSE [console |-> <<>>, raised |-> NoError]
         IN  [ret |-> r.ret, raised |-> d.raised,
              console |-> r.console \o d.console]
    ELSE [ret |-> NoResult, raised |-> NoError, console |-> <<>>]

(***************************************************************************)
(* Reader, writer and command-line calls.                                  *)
(***************************************************************************)
\* the street a caller puts into a record it decoded before encoding it
CallerStreet == "1 New Street"

\* the data argument of a writer: the manager's own record (data=None),
\* the dict a reader returned, or that dict with its street replaced
DataArgs ==
    {company_data}
    \cup (IF IsDict(ret) THEN {ret.d} ELSE {})
    \cup (IF IsDict(ret) /\ "street" \in DOMAIN ret.d
          THEN {[ret.d EXCEPT !["street"] = PyStr(CallerStreet)]} ELSE {})

IOStep(call, newData, newFiles, newRet, out, exc) ==
    /\ nIO < MaxIO
    /\ nIO' = nIO + 1
    /\ company_data' = newData
    /\ files' = newFiles
    /\ ret' = newRet
    /\ console' = out
    /\ raised' = exc
    /\ last' = call
    /\ UNCHANGED <<nEdits, session>>
    /\ UNCHANGED lvars

WriteJson ==
    \E data \in DataArgs :
        LET w == write_json(files, data)
        IN  IOStep(CallWith("write_json", data), company_data, w.files, ret,
                   <<>>, w.raised)

WriteIni ==
    \E data \in DataArgs :
        LET w == write_ini(files, data)
        IN  IOStep(CallWith("write_ini", data), company_data, w.files, ret,
                   <<>>, w.raised)

WriteCsv ==
    \E data \in DataArgs :
        LET w == write_csv(files, data)
        IN  IOStep(CallWith("write_csv", data), company_data, w.files, ret,
                   <<>>, w.raised)

WriteText ==
    \E data \in DataArgs :
        LET w == write_text(files, data)
        IN  IOStep(CallWith("write_text", data), company_data, w.files, ret,
                   <<>>, w.raised)

UpdateAllFormats ==
    \E data \in DataArgs :
        LET u == update_all_formats(files, data)
        IN  IOStep(CallWith("update_all_formats", data), company_data,
                   u.files, ret, u.console, u.raised)

ReadJson ==
    LET r == read_json(files)
    IN  IOStep(Call("read_json", <<>>, ""), company_data, files, r.ret,
               r.console, NoError)

ReadIni ==
    LET r == read_ini(files)
    IN  IOStep(Call("read_ini", <<>>, ""), company_data, files, r.ret,
               r.console, NoError)

\* python company_manager.py --read fmt: a new manager, then the read
MainRead ==
    \E fmt \in ReadChoices :
        LET m == main_read(files, fmt)
        IN  IOStep(Call("main --read", <<>>, fmt), DefaultData, files, m.ret,
                   m.console, m.raised)

\* python company_manager.py --update-all
MainUpdateAll ==
    LET u == update_all_formats(files, DefaultData)
    IN  IOStep(CallWith("main --update-all", DefaultData), DefaultData,
               u.files, ret, u.console, u.raised)

(***************************************************************************)
(* The logo manager.  A LogoInfo object is an entry of LogoInfos; lists    *)
(* and indexes hold references to the objects (positions in LogoInfos),    *)
(* as Python lists hold references.                                        *)
(***************************************************************************)
\* the members of the enum LogoCategory, by name, in definition order
LogoCategory == <<"COMPANY", "DIVISION", "PARTNERS", "INVESTORS">>

\* member.value
CategoryValue(member) ==
    IF member = "COMPANY" THEN "company"
    ELSE IF member = "DIVISION" THEN "division"
    ELSE IF member = "PARTNERS" THEN "partners"
    ELSE "investors"

\* LogoCategory(value): the member with this value, "" for ValueError
CategoryOfValue(value) ==
    IF \E i \in DOMAIN LogoCategory : CategoryValue(LogoCategory[i]) = value
    THEN LogoCategory[CHOOSE i \in DOMAIN LogoCategory :
                          CategoryValue(LogoCategory[i]) = value]
    ELSE ""

\* a category argument that is a member of the enum, not a string
EnumArg(member) == [t |-> "enum", s |-> member, n |-> 0, e |-> 0]

BASE_URL ==
    "https://raw.githubusercontent.com/jkwinnersinvestment/JKWI-WEB/main/JKWI%20LOGO%20PNG"

\* the LogoInfo objects of the registry literal, in source order
LogoInfos ==
  <<
    [name |-> "jk_winners_investment_main",
     category |-> "COMPANY",
     filename |-> "JK WINNERS INVESTMENT LOGO.png",
     url |-> BASE_URL \o "/JK%20WINNERS%20INVESTMENT%20LOGO.png",
     description |-> "Main company logo for JK Winners Investment",
     size_hint |-> PyNone,
     color_variant |-> PyStr("full_color")],
    [name |-> "jk_winners_investment_white",
     category |-> "COMPANY",
     filename |-> "JK WINNERS INVESTMENT LOGO WHITE.png",
     url |-> BASE_URL \o "/JK%20WINNERS%20INVESTMENT%20LOGO%20WHITE.png",
     description |-> "White variant of JK Winners Investment logo",
     size_hint |-> PyNone,
     color_variant |-> PyStr("white")],
    [name |-> "jkwi_foundation",
     category |-> "DIVISION",
     filename |-> "JKWI FOUNDATION LOGO.png",
     url |-> BASE_URL \o "/JKWI%20FOUNDATION%20LOGO.png",
     description |-> "JKWI Foundation division logo",
     size_hint |-> PyNone,
     color_variant |-> PyNone],
    [name |-> "jkwi_foundation_white",
     category |-> "DIVISION",
     filename |-> "JKWI FOUNDATION LOGO WHITE.png",
     url |-> BASE_URL \o "/JKWI%20FOUNDATION%20LOGO%20WHITE.png",
     description |-> "White variant of JKWI Foundation logo",
     size_hint |-> PyNone,
     color_variant |-> PyStr("white")],
    [name |-> "jkwi_innovation_hub",
     category |-> "DIVISION",
     filename |-> "JKWI INNOVATION HUB LOGO.png",
     url |-> BASE_URL \o "/JKWI%20INNOVATION%20HUB%20LOGO.png",
     description |-> "JKWI Innovation Hub division logo",
     size_hint |-> PyNone,
     color_variant |-> PyNone],
    [name |-> "jkwi_innovation_hub_white",
     category |-> "DIVISION",
     filename |-> "JKWI INNOVATION HUB LOGO WHITE.png",
     url |-> BASE_URL \o "/JKWI%20INNOVATION%20HUB%20LOGO%20WHITE.png",
     description |-> "White variant of JKWI Innovation Hub logo",
     size_hint |-> PyNone,
     color_variant |-> PyStr("white")],
    [name |-> "jkwi_properties",
     category |-> "DIVISION",
     filename |-> "JKWI PROPERTIES LOGO.png",
     url |-> BASE_URL \o "/JKWI%20PROPERTIES%20LOGO.png",
     description |-> "JKWI Properties division logo",
     size_hint |-> PyNone,
     color_variant |-> PyNone],
    [name |-> "jkwi_properties_white",
     category |-> "DIVISION",
     filename |-> "JKWI PROPERTIES LOGO WHITE.png",
     url |-> BASE_URL \o "/JKWI%20PROPERTIES%20LOGO%20WHITE.png",
     description |-> "White variant of JKWI Properties logo",
     size_hint |-> PyNone,
     color_variant |-> PyStr("white")],
    [name |-> "jkwi_ventures",
     category |-> "DIVISION",
     filename |-> "JKWI VENTURES LOGO.png",
     url |-> BASE_URL \o "/JKWI%20VENTURES%20LOGO.png",
     description |-> "JKWI Ventures division logo",
     size_hint |-> PyNone,
     color_variant |-> PyNone],
    [name |-> "jkwi_ventures_white",
     category |-> "DIVISION",
     filename |-> "JKWI VENTURES LOGO WHITE.png",
     url |-> BASE_URL \o "/JKWI%20VENTURES%20LOGO%20WHITE.png",
     description |-> "White variant of JKWI Ventures logo",
     size_hint |-> PyNone,
     color_variant |-> PyStr("white")],
    [name |-> "africa_investment_trade_expo",
     category |-> "PARTNERS",
     filename |-> "AFRICA INVESTMENT AND TRADE EXPO LOGO.png",
     url |-> BASE_URL \o "/AFRICA%20INVESTMENT%20AND%20TRADE%20EXPO%20LOGO.png",
     description |-> "Africa Investment and Trade Expo partner logo",
     size_hint |-> PyNone,
     color_variant |-> PyNone],
    [name |-> "africa_investment_trade_expo_white",
     category |-> "PARTNERS",
     filename |-> "AFRICA INVESTMENT AND TRADE EXPO LOGO WHITE.png",
     url |-> BASE_URL \o "/AFRICA%20INVESTMENT%20AND%20TRADE%20EXPO%20LOGO%20WHITE.png",
     description |-> "White variant of Africa Investment and Trade Expo logo",
     size_hint |-> PyNone,
     color_variant |-> PyStr("white")],
    [name |-> "black_owned_business_network",
     category |-> "PARTNERS",
     filename |-> "BLACK OWNED BUSINESS NETWORK LOGO.png",
     url |-> BASE_URL \o "/BLACK%20OWNED%20BUSINESS%20NETWORK%20LOGO.png",
     description |-> "Black Owned Business Network partner logo",
     size_hint |-> PyNone,
     color_variant |-> PyNone],
    [name |-> "black_owned_business_network_white",
     category |-> "PARTNERS",
     filename |-> "BLACK OWNED BUSINESS NETWORK LOGO WHITE.png",
     url |-> BASE_URL \o "/BLACK%20OWNED%20BUSINESS%20NETWORK%20LOGO%20WHITE.png",
     description |-> "White variant of Black Owned Business Network logo",
     size_hint |-> PyNone,
     color_variant |-> PyStr("white")],
    [name |-> "bnb_exchange",
     category |-> "PARTNERS",
     filename |-> "BNB EXCHANGE LOGO.png",
     url |-> BASE_URL \o "/BNB%20EXCHANGE%20LOGO.png",
     description |-> "BNB Exchange partner logo",
     size_hint |-> PyNone,
     color_variant |-> PyNone],
    [name |-> "bnb_exchange_white",
     category |-> "PARTNERS",
     filename |-> "BNB EXCHANGE LOGO WHITE.png",
     url |-> BASE_URL \o "/BNB%20EXCHANGE%20LOGO%20WHITE.png",
     description |-> "White variant of BNB Exchange logo",
     size_hint |-> PyNone,
     color_variant |-> PyStr("white")],
    [name |-> "corporate_bridge",
     category |-> "PARTNERS",
     filename |-> "CORPORATE BRIDGE LOGO.png",
     url |-> BASE_URL \o "/CORPORATE%20BRIDGE%20LOGO.png",
     description |-> "Corporate Bridge partner logo",
     size_hint |-> PyNone,
     color_variant |-> PyNone],
    [name |-> "corporate_bridge_white",
     category |-> "PARTNERS",
     filename |-> "CORPORATE BRIDGE LOGO WHITE.png",
     url |-> BASE_URL \o "/CORPORATE%20BRIDGE%20LOGO%20WHITE.png",
     description |-> "White variant of Corporate Bridge logo",
     size_hint |-> PyNone,
     color_variant |-> PyStr("white")],
    [name |-> "investment_bridge",
     category |-> "PARTNERS",
     filename |-> "INVESTMENT BRIDGE LOGO.png",
     url |-> BASE_URL \o "/INVESTMENT%20BRIDGE%20LOGO.png",
     description |-> "Investment Bridge partner logo",
     size_hint |-> PyNone,
     color_variant |-> PyNone],
    [name |-> "investment_bridge_white",
     category |-> "PARTNERS",
     filename |-> "INVESTMENT BRIDGE LOGO WHITE.png",
     url |-> BASE_URL \o "/INVESTMENT%20BRIDGE%20LOGO%20WHITE.png",
     description |-> "White variant of Investment Bridge logo",
     size_hint |-> PyNone,
     color_variant |-> PyStr("white")],
    [name |-> "jk_winners_investment_platform",
     category |-> "PARTNERS",
     filename |-> "JK WINNERS INVESTMENT PLATFORM LOGO.png",
     url |-> BASE_URL \o "/JK%20WINNERS%20INVESTMENT%20PLATFORM%20LOGO.png",
     description |-> "JK Winners Investment Platform logo",
     size_hint |-> PyNone,
     color_variant |-> PyNone],
    [name |-> "jk_winners_investment_platform_white",
     category |-> "PARTNERS",
     filename |-> "JK WINNERS INVESTMENT PLATFORM LOGO WHITE.png",
     url |-> BASE_URL \o "/JK%20WINNERS%20INVESTMENT%20PLATFORM%20LOGO%20WHITE.png",
     description |-> "White variant of JK Winners Investment Platform logo",
     size_hint |-> PyNone,
     color_variant |-> PyStr("white")],
    [name |-> "jkwi_angel_investors",
     category |-> "INVESTORS",
     filename |-> "JKWI ANGEL INVESTORS LOGO.png",
     url |-> BASE_URL \o "/JKWI%20ANGEL%20INVESTORS%20LOGO.png",
     description |-> "JKWI Angel Investors logo",
     size_hint |-> PyNone,
     color_variant |-> PyNone],
    [name |-> "jkwi_angel_investors_white",
     category |-> "INVESTORS",
     filename |-> "JKWI ANGEL INVESTORS LOGO WHITE.png",
     url |-> BASE_URL \o "/JKWI%20ANGEL%20INVESTORS%20LOGO%20WHITE.png",
     description |-> "White variant of JKWI Angel Investors logo",
     size_hint |-> PyNone,
     color_variant |-> PyStr("white")],
    [name |-> "jkwi_crowd_funding",
     category |-> "INVESTORS",
     filename |-> "JKWI CROWD FUNDING LOGO.png",
     url |-> BASE_URL \o "/JKWI%20CROWD%20FUNDING%20LOGO.png",
     description |-> "JKWI Crowd Funding logo",
     size_hint |-> PyNone,
     color_variant |-> PyNone],
    [name |-> "jkwi_crowd_funding_white",
     category |-> "INVESTORS",
     filename |-> "JKWI CROWD FUNDING LOGO WHITE.png",
     url |-> BASE_URL \o "/JKWI%20CROWD%20FUNDING%20LOGO%20WHITE.png",
     description |-> "White variant of JKWI Crowd Funding logo",
     size_hint |-> PyNone,
     color_variant |-> PyStr("white")],
    [name |-> "jkwi_fund_managers",
     category |-> "INVESTORS",
     filename |-> "JKWI FUND MANAGERS LOGO.png",
     url |-> BASE_URL \o "/JKWI%20FUND%20MANAGERS%20LOGO.png",
     description |-> "JKWI Fund Managers logo",
     size_hint |-> PyNone,
     color_variant |-> PyNone],
    [name |-> "jkwi_fund_managers_white",
     category |-> "INVESTORS",
     filename |-> "JKWI FUND MANAGERS LOGO WHITE.png",
     url |-> BASE_URL \o "/JKWI%20FUND%20MANAGERS%20LOGO%20WHITE.png",
     description |-> "White variant of JKWI Fund Managers logo",
     size_hint |-> PyNone,
     color_variant |-> PyStr("white")],
    [name |-> "jkwi_investment_club",
     category |-> "INVESTORS",
     filename |-> "JKWI INVESTMENT CLUB LOGO.png",
     url |-> BASE_URL \o "/JKWI%20INVESTMENT%20CLUB%20LOGO.png",
     description |-> "JKWI Investment Club logo",
     size_hint |-> PyNone,
     color_variant |-> PyNone],
    [name |-> "jkwi_investment_club_white",
     category |-> "INVESTORS",
     filename |-> "JKWI INVESTMENT CLUB LOGO WHITE.png",
     url |-> BASE_URL \o "/JKWI%20INVESTMENT%20CLUB%20LOGO%20WHITE.png",
     description |-> "White variant of JKWI Investment Club logo",
     size_hint |-> PyNone,
     color_variant |-> PyStr("white")],
    [name |-> "jkwi_portfolio",
     category |-> "INVESTORS",
     filename |-> "JKWI PORTFOLIO LOGO.png",
     url |-> BASE_URL \o "/JKWI%20PORTFOLIO%20LOGO.png",
     description |-> "JKWI Portfolio logo",
     size_hint |-> PyNone,
     color_variant |-> PyNone],
    [name |-> "jkwi_portfolio_white",
     category |-> "INVESTORS",
     filename |-> "JKWI PORTFOLIO LOGO WHITE.png",
     url |-> BASE_URL \o "/JKWI%20PORTFOLIO%20LOGO%20WHITE.png",
     description |-> "White variant of JKWI Portfolio logo",
     size_hint |-> PyNone,
     color_variant |-> PyStr("white")],
    [name |-> "jkwi_private_equity",
     category |-> "INVESTORS",
     filename |-> "JKWI PRIVATE EQUITY LOGO.png",
     url |-> BASE_URL \o "/JKWI%20PRIVATE%20EQUITY%20LOGO.png",
     description |-> "JKWI Private Equity logo",
     size_hint |-> PyNone,
     color_variant |-> PyNone],
    [name |-> "jkwi_private_equity_white",
     category |-> "INVESTORS",
     filename |-> "JKWI PRIVATE EQUITY LOGO WHITE.png",
     url |-> BASE_URL \o "/JKWI%20PRIVATE%20EQUITY%20LOGO%20WHITE.png",
     description |-> "White variant of JKWI Private Equity logo",
     size_hint |-> PyNone,
     color_variant |-> PyStr("white")],
    [name |-> "jkwi_seed_fund",
     category |-> "INVESTORS",
     filename |-> "JKWI SEED FUND LOGO.png",
     url |-> BASE_URL \o "/JKWI%20SEED%20FUND%20LOGO.png",
     description |-> "JKWI Seed Fund logo",
     size_hint |-> PyNone,
     color_variant |-> PyNone],
    [name |-> "jkwi_seed_fund_white",
     category |-> "INVESTORS",
     filename |-> "JKWI SEED FUND LOGO WHITE.png",
     url |-> BASE_URL \o "/JKWI%20SEED%20FUND%20LOGO%20WHITE.png",
     description |-> "White variant of JKWI Seed Fund logo",
     size_hint |-> PyNone,
     color_variant |-> PyStr("white")],
    [name |-> "jkwi_venture_capital",
     category |-> "INVESTORS",
     filename |-> "JKWI VENTURE CAPITAL LOGO.png",
     url |-> BASE_URL \o "/JKWI%20VENTURE%20CAPITAL%20LOGO.png",
     description |-> "JKWI Venture Capital logo",
     size_hint |-> PyNone,
     color_variant |-> PyNone],
    [name |-> "jkwi_venture_capital_white",
     category |-> "INVESTORS",
     filename |-> "JKWI VENTURE CAPITAL LOGO WHITE.png",
     url |-> BASE_URL \o "/JKWI%20VENTURE%20CAPITAL%20LOGO%20WHITE.png",
     description |-> "White variant of JKWI Venture Capital logo",
     size_hint |-> PyNone,
     color_variant |-> PyStr("white")]
  >>

\* name.lower(), description.lower() and filename.lower() of each object
LowerInfos ==
    [r \in DOMAIN LogoInfos |->
        [name |-> Lower(LogoInfos[r].name),
         description |-> Lower(LogoInfos[r].description),
         filename |-> Lower(LogoInfos[r].filename)]]

\* the positions of registry whose object has this name
NamePositions(registry, name) ==
    {i \in DOMAIN registry : LogoInfos[registry[i]].name = name}

Max(S) == CHOOSE x \in S : \A y \in S : y <= x

\* {logo.name: logo for logo in LOGO_REGISTRY}: the last logo of a name wins
new_logo_index(registry) ==
    [name \in {LogoInfos[registry[i]].name : i \in DOMAIN registry} |->
        registry[Max(NamePositions(registry, name))]]

\* one list per member, filled in registry order
build_category_index(registry) ==
    [member \in Range(LogoCategory) |->
        LET InCategory(r) == LogoInfos[r].category = member
        IN  SelectSeq(registry, InCategory)]

\* what a query returns: a LogoInfo, a list of them, a string, or None
LogoResult(r) == [t |-> "logo", ref |-> r]

ListResult(items) == [t |-> "list", items |-> items]

StrResult(s) == [t |-> "str", s |-> s]

\* a returned list: its items and the list of the manager it is (alias),
\* "" for a list made for this call
Returns(items, alias) == [ret |-> ListResult(items), alias |-> alias]

\* a lookup that ignores the letter case of the name
get_logo_by_name_Lower(index, name) ==
    IF Lower(name) \in DOMAIN index THEN LogoResult(index[Lower(name)])
    ELSE NoResult

get_logo_by_name(index, name) ==
    IF name \in DOMAIN index THEN LogoResult(index[name]) ELSE NoResult

\* returns the list of the category index itself, not a copy of it
get_logos_by_category(cindex, category) ==
    LET member == IF category.t = "str"
                  THEN CategoryOfValue(Lower(category.s))
                  ELSE category.s
    IN  IF member = "" THEN Returns(<<>>, "")
        ELSE IF member \in DOMAIN cindex THEN Returns(cindex[member], member)
        ELSE Returns(<<>>, "")

get_company_logo(index, variant) ==
    get_logo_by_name(index,
        IF variant = "main" THEN "jk_winners_investment_main"
        ELSE "jk_winners_investment_white")

search_logos(registry, query) ==
    LET query_lower == Lower(query)
        Matches(r) ==
            \/ Contains(LowerInfos[r].name, query_lower)
            \/ Contains(LowerInfos[r].description, query_lower)
            \/ Contains(LowerInfos[r].filename, query_lower)
    IN  Returns(SelectSeq(registry, Matches), "")

\* LOGO_REGISTRY.copy(): a new list of the same references
get_all_logos(registry) == Returns(registry, "")

get_logo_url(index, name) ==
    LET logo == get_logo_by_name(index, name)
    IN  IF logo.t = "logo" THEN StrResult(LogoInfos[logo.ref].url) ELSE NoResult

get_categories == [i \in DOMAIN LogoCategory |-> CategoryValue(LogoCategory[i])]

\* asdict(self) with the category replaced by its value
to_dict(logo) == [logo EXCEPT !.category = CategoryValue(@)]

\* the document to_json dumps
to_json(registry) ==
    [metadata |->
        [version |-> "1.0.0",
         repository |-> "https://github.com/jkwinnersinvestment/JKWI-WEB",
         base_url |-> BASE_URL,
         total_logos |-> Len(registry),
         categories |-> get_categories],
     logos |-> [i \in DOMAIN registry |-> to_dict(LogoInfos[registry[i]])]]

\* list.pop(), list.clear() and list.append(x) on a list a caller holds
ListOps == {"pop", "clear", "append"}

Modified(items, op, x) ==
    IF op = "pop" THEN SubSeq(items, 1, Len(items) - 1)
    ELSE IF op = "clear" THEN <<>>
    ELSE Append(items, x)

(***************************************************************************)
(* Initial states.                                                         *)
(***************************************************************************)
\* the registry literal and the indexes __init__ builds from it; the caller
\* holds no list yet
InitLogo ==
    /\ LOGO_REGISTRY = [r \in DOMAIN LogoInfos |-> r]
    /\ logo_index = new_logo_index(LOGO_REGISTRY)
    /\ category_index = build_category_index(LOGO_REGISTRY)
    /\ held = NoResult
    /\ nQ = 0

InitFiles == [f \in FileNames |-> Absent]

\* a JSON document without the "company" key
NoCompanyDoc == [settings |-> JsonDump(PyStr("dark"))]

\* a JSON document whose company object has one field only
PartialCompanyDoc == [company |-> [name |-> JsonDump(PyStr("Solo Ltd"))]]

\* an INI text with one section and one option
PartialIni == <<[name |-> "company", opts |-> <<Option("Name", " Solo Ltd ")>>]>>

\* what the base directory may hold before the first call
InitFileSets ==
    {InitFiles}
    \cup {[InitFiles EXCEPT ![JsonFile] = c] :
            c \in {Malformed, File(NoCompanyDoc), File(PartialCompanyDoc)}}
    \cup {[InitFiles EXCEPT ![IniFile] = c] : c \in {Malformed, File(PartialIni)}}

\* records an editing session leaves in the manager
InitRecords ==
    {DefaultData,
     edit_address(DefaultData, <<"9 Elm Road", "", "", "2000", "">>),
     edit_contact(DefaultData, <<"", "", "", " www.jkwi.co.za ">>),
     edit_tax(DefaultData, <<"4123456789", "">>, "12.5"),
     edit_tax(DefaultData, <<"", "9012345678">>, "-5")}

Init ==
    /\ company_data \in InitRecords
    /\ files \in InitFileSets
    /\ ret = NoResult
    /\ console = <<>>
    /\ raised = NoError
    /\ last = Call("__init__", <<>>, "")
    /\ nEdits = 0
    /\ nIO = 0
    /\ InitLogo
    /\ session = NoSession

Next ==
    \/ WriteJson
    \/ WriteIni
    \/ WriteCsv
    \/ WriteText
    \/ UpdateAllFormats
    \/ ReadJson
    \/ ReadIni
    \/ MainRead
    \/ MainUpdateAll

\* reader, writer and command-line calls on an edited record
Spec == Init /\ [][Next]_vars

InitEdit ==
    /\ company_data = DefaultData
    /\ files = InitFiles
    /\ ret = NoResult
    /\ console = <<>>
    /\ raised = NoError
    /\ last = Call("__init__", <<>>, "")
    /\ nEdits = 0
    /\ nIO = 0
    /\ InitLogo
    /\ session = NoSession

NextEdit ==
    \/ EditCompanyInfo
    \/ EditAddress
    \/ EditContact
    \/ EditBanking
    \/ EditTax
    \/ EditBusiness

\* an editing session on the record built by the constructor
SpecEdit == InitEdit /\ [][NextEdit]_vars

(***************************************************************************)
(* update_all_formats on a base directory that already holds the files of  *)
(* an earlier record, lacks some of them, or has a directory in the place  *)
(* of some of them.                                                        *)
(***************************************************************************)
\* the record of the earlier update
OldRecord == edit_company_info(DefaultData, <<"Acme", "", "">>)

OldFiles == update_all_formats(InitFiles, OldRecord).files

\* per file: not there, a directory, or the file of the earlier update
UpdateFileSets ==
    {[f \in FileNames |-> IF c[f] = "absent" THEN Absent
                          ELSE IF c[f] = "directory" THEN Directory
                          ELSE OldFiles[f]] :
        c \in [FileNames -> {"absent", "directory", "old"}]}

UpdateRecords ==
    {DefaultData, edit_address(DefaultData, <<"9 Elm Road", "", "", "2000", "">>)}

InitUpdate ==
    /\ company_data \in UpdateRecords
    /\ files \in UpdateFileSets
    /\ ret = NoResult
    /\ console = <<>>
    /\ raised = NoError
    /\ last = Call("__init__", <<>>, "")
    /\ nEdits = 0
    /\ nIO = 0
    /\ InitLogo
    /\ session = NoSession

NextUpdate ==
    \/ UpdateAllFormats
    \/ MainUpdateAll
    \/ ReadJson
    \/ ReadIni

\* updates of, and reads from, a base directory in any such condition
SpecUpdate == InitUpdate /\ [][NextUpdate]_vars

(***************************************************************************)
(* The --edit session.  interactive_edit shows the record and the menu,    *)
(* runs the editor chosen and then either calls itself (answer y) or       *)
(* update_all_formats; every call of itself adds a frame to the stack.     *)
(***************************************************************************)
\* the frames under the first call of interactive_edit: the module, main()
BaseFrames == 2

\* sys.getrecursionlimit() of CPython: the frames the stack may hold
RecursionLimit == 1000

RecursionError == [type |-> "RecursionError", arg |-> ""]

\* answers at "Enter your choice (1-7): " and at "Continue editing? (y/n): "
MenuChoices == {"1", "2", "3", "4", "5", "6", "7", "8"}

ContinueAnswers == {"y", "Y", "n"}

EditorChoices == {"1", "2", "3", "4", "5", "6"}

\* the string prompts of the editor a choice runs
Prompts(choice) ==
    IF choice = "1" THEN 3
    ELSE IF choice = "2" THEN 5
    ELSE IF choice = "3" THEN 4
    ELSE IF choice = "4" THEN 6
    ELSE IF choice = "5" THEN 2
    ELSE IF choice = "6" THEN 3
    ELSE 0

\* answers typed in a session: the first prompt of an editor or none of
\* them, and at the tax-rate prompt nothing, no number, or 12.5
SessionAnswers(choice) ==
    {a \in Answers(Prompts(choice)) : \A i \in 2..Prompts(choice) : a[i] = ""}

SessionRates(choice) == IF choice = "5" THEN {"", "abc", "12.5"} ELSE {""}

\* the if / elif chain on choice: the record after the editor chosen
Dispatch(data, choice, a, rate) ==
    IF choice = "1" THEN edit_company_info(data, a)
    ELSE IF choice = "2" THEN edit_address(data, a)
    ELSE IF choice = "3" THEN edit_contact(data, a)
    ELSE IF choice = "4" THEN edit_banking(data, a)
    ELSE IF choice = "5" THEN edit_tax(data, a, rate)
    ELSE IF choice = "6" THEN edit_business(data, a)
    ELSE data

\* what interactive_edit prints before it asks for the choice
MenuLines(data) ==
    <<"=== Company Details Editor ===", "Current company details:">>
    \o display_lines(data)
    \o <<"What would you like to edit?", "1. Company Information",
         "2. Address", "3. Contact Details", "4. Banking Information",
         "5. Tax Information", "6. Business Information", "7. Save and Exit">>

EditorLines(choice, rate) ==
    IF choice = "1" THEN <<"--- Company Information ---">>
    ELSE IF choice = "2" THEN <<"--- Address Information ---">>
    ELSE IF choice = "3" THEN <<"--- Contact Information ---">>
    ELSE IF choice = "4" THEN <<"--- Banking Information ---">>
    ELSE IF choice = "5" THEN edit_tax_output(rate)
    ELSE IF choice = "6" THEN <<"--- Business Information ---">>
    ELSE <<>>

\* the stack has room for one more call of interactive_edit
FrameLeft == BaseFrames + session.depth < RecursionLimit

\* the end of a session in update_all_formats
Saved(u) ==
    Session(IF u.raised = NoError THEN "done" ELSE "crashed", 0,
            session.updates + 1)

\* one call of interactive_edit, from its first print to its recursive call
\* or its call of update_all_formats
SessionStep(newData, edited, newFiles, out, exc, newSession) ==
    /\ session.pc = "editing"
    /\ FrameLeft
    /\ edited => nEdits < MaxSessionEdits
    /\ nEdits' = IF edited THEN nEdits + 1 ELSE nEdits
    /\ company_data' = newData
    /\ files' = newFiles
    /\ console' = out
    /\ raised' = exc
    /\ session' = newSession
    /\ last' = Call("interactive_edit", <<>>, "")
    /\ UNCHANGED <<ret, nIO>>
    /\ UNCHANGED lvars

\* choice 7: update_all_formats and return
SaveAndExit ==
    LET u == update_all_formats(files, company_data)
    IN  SessionStep(company_data, FALSE, u.files,
                    MenuLines(company_data) \o u.console, u.raised, Saved(u))

\* any other choice, then y or Y: the next call of interactive_edit
EditAndContinue ==
    \E choice \in MenuChoices \ {"7"}, answer \in ContinueAnswers :
        \E a \in SessionAnswers(choice), rate \in SessionRates(choice) :
            /\ Lower(answer) = "y"
            /\ SessionStep(Dispatch(company_data, choice, a, rate),
                           choice \in EditorChoices, files,
                           MenuLines(company_data) \o EditorLines(choice, rate),
                           NoError,
                           Session("editing", session.depth + 1,
                                   session.updates))

\* any other choice, then another answer: update_all_formats
EditAndSave ==
    \E choice \in MenuChoices \ {"7"}, answer \in ContinueAnswers :
        \E a \in SessionAnswers(choice), rate \in SessionRates(choice) :
            /\ Lower(answer) # "y"
            /\ LET data == Dispatch(company_data, choice, a, rate)
                   u == update_all_formats(files, data)
               IN  SessionStep(data, choice \in EditorChoices, u.files,
                               MenuLines(company_data)
                                   \o EditorLines(choice, rate) \o u.console,
                               u.raised, Saved(u))

\* the call of interactive_edit that finds the stack full: RecursionError
\* goes up through every call and through main(), which do not catch it
StackOverflow ==
    /\ session.pc = "editing"
    /\ ~FrameLeft
    /\ session' = Session("crashed", 0, session.updates)
    /\ raised' = RecursionError
    /\ console' = <<>>
    /\ last' = Call("interactive_edit", <<>>, "")
    /\ UNCHANGED <<company_data, files, ret, nEdits, nIO>>
    /\ UNCHANGED lvars

\* python company_manager.py --edit: a new manager, interactive_edit due
InitSession ==
    /\ company_data = DefaultData
    /\ files = InitFiles
    /\ ret = NoResult
    /\ console = <<>>
    /\ raised = NoError
    /\ last = Call("main --edit", <<>>, "")
    /\ nEdits = 0
    /\ nIO = 0
    /\ InitLogo
    /\ session = Session("editing", 0, 0)

NextSession ==
    \/ SaveAndExit
    \/ EditAndContinue
    \/ EditAndSave
    \/ StackOverflow

\* an interactive editing session
SpecSession == InitSession /\ [][NextSession]_vars

(***************************************************************************)
(* Queries on the logo manager, and a caller that modifies a list it got.  *)
(***************************************************************************)
NameArgs == {"jk_winners_investment_main", "jkwi_foundation_white",
             "JKWI_FOUNDATION", "no_such_logo"}

CategoryArgs ==
    {EnumArg(m) : m \in Range(LogoCategory)}
    \cup {PyStr(c) : c \in {"company", "DIVISION", "Partners", "investors",
                            "logos", "company "}}

VariantArgs == {"main", "white", "dark"}

QueryArgs == {"white", "Investment", "hub logo", ".png", "zzz"}

\* the query just made and its argument
LogoCall(op, arg) == [op |-> op, arg |-> arg]

\* the list the caller holds and the list of the manager it is
Held(q) == [t |-> "list", items |-> q.ret.items, alias |-> q.alias]

LogoStep(call, r, newHeld) ==
    /\ nQ < MaxQueries
    /\ nQ' = nQ + 1
    /\ last' = call
    /\ ret' = r
    /\ held' = newHeld
    /\ UNCHANGED <<LOGO_REGISTRY, logo_index, category_index>>
    /\ UNCHANGED cvars

GetLogoByName ==
    \E name \in NameArgs :
        LogoStep(LogoCall("get_logo_by_name", PyStr(name)),
                 get_logo_by_name(logo_index, name), held)

GetLogosByCategory ==
    \E category \in CategoryArgs :
        LET q == get_logos_by_category(category_index, category)
        IN  LogoStep(LogoCall("get_logos_by_category", category), q.ret, Held(q))

GetCompanyLogo ==
    \E variant \in VariantArgs :
        LogoStep(LogoCall("get_company_logo", PyStr(variant)),
                 get_company_logo(logo_index, variant), held)

SearchLogos ==
    \E query \in QueryArgs :
        LET q == search_logos(LOGO_REGISTRY, query)
        IN  LogoStep(LogoCall("search_logos", PyStr(query)), q.ret, Held(q))

GetAllLogos ==
    LET q == get_all_logos(LOGO_REGISTRY)
    IN  LogoStep(LogoCall("get_all_logos", PyNone), q.ret, Held(q))

GetLogoUrl ==
    \E name \in NameArgs :
        LogoStep(LogoCall("get_logo_url", PyStr(name)),
                 get_logo_url(logo_index, name), held)

ToJson ==
    \E pretty \in BOOLEAN :
        LogoStep(LogoCall("to_json", PyStr(IF pretty THEN "True" ELSE "False")),
                 [t |-> "json", doc |-> to_json(LOGO_REGISTRY)], held)

\* the caller pops from, clears, or appends the first LogoInfo to the list
\* it holds; a list that is a list of the manager changes there as well
CallerModifies ==
    /\ nQ < MaxQueries
    /\ held.t = "list"
    /\ \E op \in ListOps :
        /\ op = "pop" => held.items # <<>>
        /\ LET items == Modified(held.items, op, 1)
           IN  /\ held' = [held EXCEPT !.items = items]
               /\ category_index' =
                    IF held.alias \in DOMAIN category_index
                    THEN [category_index EXCEPT ![held.alias] = items]
                    ELSE category_index
               /\ LOGO_REGISTRY' =
                    IF held.alias = "LOGO_REGISTRY" THEN items
                    ELSE LOGO_REGISTRY
               /\ last' = LogoCall("list." \o op, PyNone)
    /\ nQ' = nQ + 1
    /\ UNCHANGED <<ret, logo_index>>
    /\ UNCHANGED cvars

NextLogo ==
    \/ GetLogoByName
    \/ GetLogosByCategory
    \/ GetCompanyLogo
    \/ SearchLogos
    \/ GetAllLogos
    \/ GetLogoUrl
    \/ ToJson
    \/ CallerModifies

\* queries on a new logo manager and a caller that modifies returned lists
SpecLogo == InitEdit /\ [][NextLogo]_vars

(***************************************************************************)
(* Properties.                                                             *)
(***************************************************************************)
Writers == {"write_json", "write_ini", "write_csv", "write_text",
            "update_all_formats"}

JsonWriters == {"write_json", "update_all_formats", "main --update-all"}

IniWriters == {"write_ini", "update_all_formats", "main --update-all"}

Editors == {"edit_company_info", "edit_address", "edit_contact",
            "edit_banking", "edit_tax", "edit_business"}

\* the string fields an editor prompts for, in prompt order
PromptFields(op) ==
    IF op = "edit_company_info" THEN CompanyFields
    ELSE IF op = "edit_address" THEN AddressFields
    ELSE IF op = "edit_contact" THEN ContactFields
    ELSE IF op = "edit_banking" THEN BankingFields
    ELSE IF op = "edit_tax" THEN <<"vat_number", "tax_reference">>
    ELSE IF op = "edit_business" THEN BusinessFields
    ELSE <<>>

\* this step is a call of an editor
EditStep == nEdits' = nEdits + 1 /\ last'.op \in Editors

Printed(line) == \E i \in DOMAIN console : console[i] = line

\* the value of option k of section sec of an INI text
IniValue(doc, sec, k) ==
    LET x == CHOOSE y \in Range(doc) : y.name = sec
    IN  (CHOOSE o \in Range(x.opts) : o.k = k).v

IniHas(doc, k) == \E x \in Range(doc) : \E o \in Range(x.opts) : Lower(o.k) = k

IniText(doc, k) ==
    LET x == CHOOSE y \in Range(doc) : \E o \in Range(y.opts) : Lower(o.k) = k
    IN  Strip((CHOOSE o \in Range(x.opts) : Lower(o.k) = k).v)

\* the JSON file holds what write_json makes of data
JsonFileEncodes(data) ==
    /\ files[JsonFile].st = "ok"
    /\ files[JsonFile] = File(JsonEncode(structured_data(data)))

\* the JSON source is no valid document with a "company" key
BadJsonSource ==
    \/ files[JsonFile].st = "malformed"
    \/ files[JsonFile].st = "ok" /\ "company" \notin DOMAIN files[JsonFile].doc

\* "{street}, {suburb}, {province} {postal_code}" of a record of strings
ExpectedAddress(d) ==
    d["street"].s \o ", " \o d["suburb"].s \o ", " \o d["province"].s
    \o " " \o d["postal_code"].s

\* the record carries a full_address that its address fields no longer give
StaleAddress(d) ==
    /\ "full_address" \in DOMAIN d
    /\ d["full_address"].s # ExpectedAddress(d)

\* C1: after write_json of the record, read_json returns a record equal to
\* it on every flat field of the field table.
C1_JsonRoundTrip ==
    (last.op = "read_json" /\ JsonFileEncodes(company_data))
        => /\ IsDict(ret)
           /\ \A f \in Fields :
                f \in DOMAIN ret.d /\ ret.d[f] = company_data[f]

\* answers that are no number
NotNumbers == {"abc", "1.2.3"}

\* C2: an edit_tax call whose tax-rate answer is no number leaves
\* default_tax_rate as it was, prints the invalid-rate line and raises
\* nothing; the answer "12.5" sets default_tax_rate to 12.5.
C2_TaxRateValidation ==
    [][(EditStep /\ last'.op = "edit_tax")
        => /\ last'.rate \in NotNumbers
                => /\ company_data'["default_tax_rate"]
                        = company_data["default_tax_rate"]
                   /\ \E i \in DOMAIN console' : console'[i] = InvalidTaxRate
                   /\ raised' = NoError
           /\ last'.rate = "12.5"
                => company_data'["default_tax_rate"] = PyFloat(125, 1)]_vars

\* C2 witness: "abc" was answered after the rate had been set to 12.5, and
\* 12.5 is still there.
C2_Witness ==
    /\ last.op = "edit_tax"
    /\ last.rate = "abc"
    /\ Printed(InvalidTaxRate)
    /\ company_data["default_tax_rate"] = PyFloat(125, 1)

\* C3: in every state of an editing session default_tax_rate is a
\* non-negative number.
C3_TaxRateNonNegative == NonNegative(company_data["default_tax_rate"])

C5_DecodeUnsupported ==
    (last.op = "main --read" /\ last.rate \in {"csv", "txt"})
        => raised # NoError \/ console # <<>>

\* C6: after a successful JSON or INI encode of a record, the full_address
\* written is "{street}, {suburb}, {province} {postal_code}" of the record's
\* current values, whatever full_address entry the record carried; the
\* default address gives "22 Sloane Street, Bryanston, GAUTENG 1619".
C6_FullAddressFresh ==
    /\ (last.op \in JsonWriters /\ raised = NoError)
        => LET a == files[JsonFile].doc["company"]["address"]
           IN  /\ a["full_address"].t = "string"
               /\ a["full_address"].s = ExpectedAddress(last.data)
               /\ (a["street"].s = "22 Sloane Street" /\ a["suburb"].s = "Bryanston"
                   /\ a["province"].s = "GAUTENG" /\ a["postal_code"].s = "1619")
                    => a["full_address"].s
                        = "22 Sloane Street, Bryanston, GAUTENG 1619"
    /\ (last.op \in IniWriters /\ raised = NoError)
        => LET doc == files[IniFile].doc
           IN  /\ IniValue(doc, "address", "full_address")
                    = ExpectedAddress(last.data)
               /\ (IniValue(doc, "address", "street") = "22 Sloane Street"
                   /\ IniValue(doc, "address", "suburb") = "Bryanston"
                   /\ IniValue(doc, "address", "province") = "GAUTENG"
                   /\ IniValue(doc, "address", "postal_code") = "1619")
                    => IniValue(doc, "address", "full_address")
                        = "22 Sloane Street, Bryanston, GAUTENG 1619"

\* C6 witness: all formats were written from a record whose own
\* full_address entry was stale.
C6_Witness ==
    /\ last.op = "update_all_formats"
    /\ raised = NoError
    /\ StaleAddress(last.data)
    /\ files[JsonFile].doc["company"]["address"]["full_address"].s
        = "1 New Street, Bryanston, GAUTENG 1619"

\* C7 as stated: every answer typed at a string prompt, the empty one
\* included, becomes the field's value.
C7_AnyStringStored ==
    [][EditStep
        => \A i \in DOMAIN PromptFields(last'.op) :
            company_data'[PromptFields(last'.op)[i]] = PyStr(last'.a[i])]_vars

\* C7 amended: a non-empty answer becomes the field's value exactly as
\* typed; an empty answer keeps the field's current value.
C7_NonEmptyStoredEmptyKeeps ==
    [][EditStep
        => \A i \in DOMAIN PromptFields(last'.op) :
            company_data'[PromptFields(last'.op)[i]]
                = IF last'.a[i] # "" THEN PyStr(last'.a[i])
                  ELSE company_data[PromptFields(last'.op)[i]]]_vars

\* C7 witness: the name typed in an earlier call survived an empty answer at
\* the name prompt.
C7_Witness ==
    /\ last.op = "edit_company_info"
    /\ last.a[1] = ""
    /\ nEdits = 2
    /\ company_data["name"] = PyStr("Acme")

\* the dict was decoded from a file that the matching writer wrote
DecodedFromWriter(d) ==
    \E r \in InitRecords \cup {DefaultData} :
        \/ d = JsonDecode(JsonEncode(structured_data(r))["company"])
        \/ d = FlattenSections(config(r), EmptyDict)

\* C8: a writer handed a record that a reader decoded from a written file
\* succeeds.
C8_DecodedRecordEncodes ==
    (last.op \in Writers /\ IsDict(ret) /\ DOMAIN ret.d # {}
     /\ DOMAIN last.data = DOMAIN ret.d /\ last.data = ret.d
     /\ DecodedFromWriter(ret.d))
        => raised = NoError

\* the source file of the reader just called does not exist
MissingSource ==
    \/ last.op = "read_json" /\ files[JsonFile].st = "absent"
    \/ last.op = "read_ini" /\ files[IniFile].st = "absent"

C10_IniDecodeDefaults ==
    (last.op = "read_ini" /\ files[IniFile].st = "ok")
        => /\ IsDict(ret)
           /\ \A f \in Fields :
                /\ f \in DOMAIN ret.d
                /\ IF IniHas(files[IniFile].doc, f)
                   THEN ret.d[f].s = IniText(files[IniFile].doc, f)
                   ELSE ret.d[f] = DefaultData[f]

\* the INI file holds what write_ini makes of data
IniFileEncodes(data) ==
    /\ files[IniFile].st = "ok"
    /\ files[IniFile] = File(config(data))

\* C11: after write_ini of the record, read_ini returns a default_tax_rate
\* equal to the record's number (the same number, not its string form).
C11_IniTaxRateRoundTrip ==
    (last.op = "read_ini" /\ IniFileEncodes(company_data))
        => /\ IsDict(ret)
           /\ "default_tax_rate" \in DOMAIN ret.d
           /\ ret.d["default_tax_rate"] = company_data["default_tax_rate"]

\* the groups of the JSON document and the fields each one holds
JsonGroups == {"address", "contact", "banking", "tax", "business"}

GroupFields(g) ==
    IF g = "address" THEN Range(AddressFields)
    ELSE IF g = "contact" THEN Range(ContactFields)
    ELSE IF g = "banking" THEN Range(BankingFields)
    ELSE IF g = "tax" THEN Range(TaxFields)
    ELSE Range(BusinessFields)

\* C12: read_json of a document with a "company" object returns a flat
\* record: no key that is not a field of the record, and every field of a
\* group the document lacks at the value the manager's record or the
\* default record has for it.
C12_JsonDecodeFlattens ==
    (/\ last.op = "read_json"
     /\ files[JsonFile].st = "ok"
     /\ "company" \in DOMAIN files[JsonFile].doc)
        => /\ IsDict(ret)
           /\ DOMAIN ret.d \subseteq Fields \cup {"full_address"}
           /\ \A g \in JsonGroups :
                g \notin DOMAIN files[JsonFile].doc["company"]
                    => \A f \in GroupFields(g) :
                         /\ f \in DOMAIN ret.d
                         /\ ret.d[f] \in {company_data[f], DefaultData[f]}

TextWriters == {"write_text", "update_all_formats", "main --update-all"}

HasLine(doc, line) == \E i \in DOMAIN doc : doc[i] = line

StartsWith(s, prefix) ==
    Len(s) >= Len(prefix) /\ SubSeq(s, 1, Len(prefix)) = prefix

\* the one line of the text that starts with label is label and then value
LabelledLine(doc, label, value) ==
    /\ HasLine(doc, label \o value)
    /\ \A i \in DOMAIN doc : StartsWith(doc[i], label) => doc[i] = label \o value

\* what the claim expects after a label: the placeholder for "", else the value
Rendered(v) == IF v.s = "" THEN "[To be filled]" ELSE v.s

\* C13: after a text write, the VAT Number line and the Tax Reference line
\* carry [To be filled] exactly when vat_number, tax_reference is empty and
\* the field's value otherwise; the text of the default record contains
\* "Tax Reference: [To be filled]".
C13_TextPlaceholder ==
    (/\ last.op \in TextWriters
     /\ raised = NoError
     /\ files[TextFile].st = "ok")
        => LET doc == files[TextFile].doc
               d == last.data
           IN  /\ LabelledLine(doc, "    VAT Number: ", Rendered(d["vat_number"]))
               /\ LabelledLine(doc, "    Tax Reference: ",
                               Rendered(d["tax_reference"]))
               /\ d = DefaultData
                    => \E i \in DOMAIN doc :
                         Contains(doc[i], "Tax Reference: [To be filled]")

\* C13 witness: a text was written from a record with a VAT number and no
\* tax reference: the first is printed, the second is the placeholder.
C13_Witness ==
    /\ last.op = "write_text"
    /\ raised = NoError
    /\ files[TextFile].st = "ok"
    /\ last.data["vat_number"] = PyStr("4123456789")
    /\ last.data["tax_reference"] = PyStr("")
    /\ HasLine(files[TextFile].doc, "    VAT Number: 4123456789")
    /\ HasLine(files[TextFile].doc, "    Tax Reference: [To be filled]")

\* this step is a reader, writer or command-line call
IOCall == nIO' = nIO + 1

\* the section names and, per section, the option names of an INI text
SectionNames(doc) == [i \in DOMAIN doc |-> doc[i].name]

OptionNames(doc) ==
    [i \in DOMAIN doc |-> [j \in DOMAIN doc[i].opts |-> doc[i].opts[j].k]]

\* C14: a call that writes the INI file from the record the call before it
\* wrote it from, with nothing done in between, leaves the file as it was:
\* the same text, the same sections and keys in the same order.
C14_IniEncodeDeterministic ==
    [][(/\ IOCall
        /\ last'.op \in IniWriters
        /\ last'.again
        /\ raised = NoError
        /\ raised' = NoError)
        => /\ files[IniFile].st = "ok"
           /\ files'[IniFile] = files[IniFile]
           /\ SectionNames(files'[IniFile].doc) = SectionNames(files[IniFile].doc)
           /\ OptionNames(files'[IniFile].doc) = OptionNames(files[IniFile].doc)]_vars

\* C14 witness: write_ini has just written the INI file a second time from
\* the record of the call before it.
C14_Witness ==
    /\ last.op = "write_ini"
    /\ last.again
    /\ raised = NoError
    /\ nIO >= 2
    /\ IniFileEncodes(last.data)

\* the option names the claim gives each section, in the order of the
\* field table
ExpectedOptions ==
    <<<<"name", "registration_number", "type">>,
      <<"street", "suburb", "province", "postal_code", "country",
        "full_address">>,
      <<"email", "phone", "whatsapp", "website">>,
      <<"account_name", "bank", "branch_code", "account_number",
        "account_type", "swift_code">>,
      <<"vat_number", "tax_reference", "default_tax_rate">>,
      <<"industry", "established_year", "description">>>>

\* str() of the tax rates the records of this specification hold
RateText(v) ==
    IF v.t = "str" THEN v.s
    ELSE IF v = PyFloat(15, 0) THEN "15.0"
    ELSE IF v = PyFloat(125, 1) THEN "12.5"
    ELSE IF v = PyFloat(-5, 0) THEN "-5.0"
    ELSE "?"

\* the sections of doc that have an option named k
SectionsWith(doc, k) ==
    {i \in DOMAIN doc : \E j \in DOMAIN doc[i].opts : doc[i].opts[j].k = k}

\* C15: after an INI write the text has the six sections company, address,
\* contact, banking, tax, business in this order; each holds the fields of
\* its group under their own names (address also full_address), every value
\* the string of the record's field, default_tax_rate as str() gives it, and
\* every record field is in exactly one section.
C15_IniSections ==
    (/\ last.op \in IniWriters
     /\ raised = NoError
     /\ files[IniFile].st = "ok")
        => LET doc == files[IniFile].doc
               d == last.data
           IN  /\ SectionNames(doc) = <<"company", "address", "contact",
                                        "banking", "tax", "business">>
               /\ OptionNames(doc) = ExpectedOptions
               /\ \A f \in StringFields :
                    /\ Cardinality(SectionsWith(doc, f)) = 1
                    /\ \A i \in SectionsWith(doc, f) :
                         IniValue(doc, doc[i].name, f) = d[f].s
               /\ SectionsWith(doc, "default_tax_rate") = {5}
               /\ IniValue(doc, "tax", "default_tax_rate")
                    = RateText(d["default_tax_rate"])
               /\ IniValue(doc, "address", "full_address") = ExpectedAddress(d)

\* C15 witness: write_ini wrote a record whose tax rate is the float 12.5
\* as the text "12.5" in the fifth section, tax.
C15_Witness ==
    /\ last.op = "write_ini"
    /\ raised = NoError
    /\ files[IniFile].st = "ok"
    /\ last.data["default_tax_rate"] = PyFloat(125, 1)
    /\ Len(files[IniFile].doc) = 6
    /\ files[IniFile].doc[5].name = "tax"
    /\ IniValue(files[IniFile].doc, "tax", "default_tax_rate") = "12.5"

CsvWriters == {"write_csv", "update_all_formats", "main --update-all"}

\* the header the claim expects, in source order
ExpectedHeader ==
    <<"company_name", "registration_number", "company_type", "street_address",
      "suburb", "province", "postal_code", "country", "email", "phone",
      "whatsapp", "website", "account_name", "bank", "branch_code",
      "account_number", "account_type", "vat_number", "tax_reference",
      "default_tax_rate", "industry", "established_year", "description">>

\* the record field the claim maps a column to
ColumnField(col) ==
    IF col = "company_name" THEN "name"
    ELSE IF col = "company_type" THEN "type"
    ELSE IF col = "street_address" THEN "street"
    ELSE col

\* C16: after a CSV write the file has one header row of 23 pairwise
\* distinct column names in source order and one data row; each column
\* carries the value of the field it is mapped to (company_name <- name,
\* company_type <- type, street_address <- street, the others their own
\* name), and swift_code is the only record field without a column.
C16_CsvRow ==
    (/\ last.op \in CsvWriters
     /\ raised = NoError
     /\ files[CsvFile].st = "ok")
        => LET doc == files[CsvFile].doc
               d == last.data
           IN  /\ doc.header = ExpectedHeader
               /\ Len(doc.header) = 23
               /\ \A i, j \in DOMAIN doc.header :
                    i # j => doc.header[i] # doc.header[j]
               /\ Len(doc.rows) = 1
               /\ DOMAIN doc.rows[1] = DOMAIN doc.header
               /\ \A i \in DOMAIN doc.header :
                    LET f == ColumnField(doc.header[i])
                    IN  /\ f \in Fields
                        /\ doc.rows[1][i] = IF f = "default_tax_rate"
                                            THEN RateText(d[f]) ELSE d[f].s
               /\ Fields \ {ColumnField(doc.header[i]) : i \in DOMAIN doc.header}
                    = {"swift_code"}

\* C16 witness: write_csv wrote the record with the edited address; the
\* street_address column carries its street and the row has 23 values.
C16_Witness ==
    /\ last.op = "write_csv"
    /\ raised = NoError
    /\ files[CsvFile].st = "ok"
    /\ last.data["street"] = PyStr("9 Elm Road")
    /\ Len(files[CsvFile].doc.rows) = 1
    /\ Len(files[CsvFile].doc.rows[1]) = 23
    /\ files[CsvFile].doc.header[4] = "street_address"
    /\ files[CsvFile].doc.rows[1][4] = "9 Elm Road"

\* the file a single-format writer writes
TargetFile(op) ==
    IF op = "write_json" THEN JsonFile
    ELSE IF op = "write_ini" THEN IniFile
    ELSE IF op = "write_csv" THEN CsvFile
    ELSE TextFile

SingleWriters == {"write_json", "write_ini", "write_csv", "write_text"}

\* C17: a call of write_json, write_ini, write_csv, write_text or
\* update_all_formats, whether it succeeds or raises, leaves the manager's
\* record and the decoded record it may have been handed as they were, and
\* a single-format writer changes no file but its own.
C17_WriteFrame ==
    [][(IOCall /\ last'.op \in Writers)
        => /\ last'.data \in DataArgs
           /\ company_data' = company_data
           /\ ret' = ret
           /\ last'.op \in SingleWriters
                => \A f \in FileNames \ {TargetFile(last'.op)} :
                     files'[f] = files[f]]_vars

\* C17 witness: write_text wrote the text file after write_json had written
\* the JSON file; the JSON file is still there, no INI or CSV file exists,
\* and the record written is still the manager's record.
C17_Witness ==
    /\ last.op = "write_text"
    /\ raised = NoError
    /\ files[TextFile].st = "ok"
    /\ last.data = company_data
    /\ JsonFileEncodes(company_data)
    /\ files[IniFile].st = "absent"
    /\ files[CsvFile].st = "absent"

\* the registry as the class body builds it, and the indexes of a new manager
NewRegistry == [r \in DOMAIN LogoInfos |-> r]

\* C18: whatever queries were made and whatever a caller did to a list it
\* got, the registry, the name index and the category index are as the
\* constructor left them, and get_logos_by_category returns what it returns
\* on a new manager.
C18_RegistryNeverMutated ==
    /\ LOGO_REGISTRY = NewRegistry
    /\ logo_index = new_logo_index(NewRegistry)
    /\ category_index = build_category_index(NewRegistry)
    /\ last.op = "get_logos_by_category"
        => ret = get_logos_by_category(build_category_index(NewRegistry),
                                       last.arg).ret

\* the registry logos whose name is n
Named(n) == {r \in Range(LOGO_REGISTRY) : LogoInfos[r].name = n}

\* C19: no two registry logos have the same name; the name index has one
\* entry per registry logo, under its name; get_logo_by_name(n) returns the
\* one registry logo named n, None when there is none, and get_logo_url(n)
\* that logo's url, None when there is none.
C19_NamesUnique ==
    /\ \A i, j \in DOMAIN LOGO_REGISTRY :
         i # j => LogoInfos[LOGO_REGISTRY[i]].name # LogoInfos[LOGO_REGISTRY[j]].name
    /\ Cardinality(DOMAIN logo_index) = Len(LOGO_REGISTRY)
    /\ \A i \in DOMAIN LOGO_REGISTRY :
         /\ LogoInfos[LOGO_REGISTRY[i]].name \in DOMAIN logo_index
         /\ logo_index[LogoInfos[LOGO_REGISTRY[i]].name] = LOGO_REGISTRY[i]
    /\ last.op \in {"get_logo_by_name", "get_logo_url"}
        => /\ Cardinality(Named(last.arg.s)) <= 1
           /\ Named(last.arg.s) = {} => ret = NoResult
           /\ \A r \in Named(last.arg.s) :
                ret = IF last.op = "get_logo_by_name" THEN LogoResult(r)
                      ELSE StrResult(LogoInfos[r].url)

\* C19 witness: get_logo_url of the fourth registry logo returned its url.
C19_Witness ==
    /\ last.op = "get_logo_url"
    /\ last.arg = PyStr("jkwi_foundation_white")
    /\ Named("jkwi_foundation_white") = {4}
    /\ ret.t = "str"
    /\ ret.s = BASE_URL \o "/JKWI%20FOUNDATION%20LOGO%20WHITE.png"

\* C20: search_logos(query) returns, in registry order and each once, the
\* registry logos whose name or description contains the query without
\* regard to letter case, and no other logo.
C20_SearchNameOrDescription ==
    last.op = "search_logos"
        => LET q == Lower(last.arg.s)
               InNameOrDescription(r) ==
                   \/ Contains(Lower(LogoInfos[r].name), q)
                   \/ Contains(Lower(LogoInfos[r].description), q)
           IN  /\ ret.t = "list"
               /\ ret.items = SelectSeq(LOGO_REGISTRY, InNameOrDescription)

\* the enum member a category argument names according to the claim: the
\* member itself, or the member whose name the string spells in any letter
\* case; "" for any other string
NamedCategory(arg) ==
    IF arg.t = "enum" THEN arg.s
    ELSE IF Lower(arg.s) = "company" THEN "COMPANY"
    ELSE IF Lower(arg.s) = "division" THEN "DIVISION"
    ELSE IF Lower(arg.s) = "partners" THEN "PARTNERS"
    ELSE IF Lower(arg.s) = "investors" THEN "INVESTORS"
    ELSE ""

\* the registry logos of a category, each once, in registry order
OfCategory(member) ==
    LET InCategory(r) == LogoInfos[r].category = member
    IN  SelectSeq(LOGO_REGISTRY, InCategory)

\* how often logo r occurs in the four lists the category queries return
Occurrences(r) ==
    Cardinality({<<m, i>> \in Range(LogoCategory) \X (1..Len(LogoInfos)) :
        LET items == get_logos_by_category(category_index, EnumArg(m)).ret.items
        IN  i <= Len(items) /\ items[i] = r})

\* C21: get_logos_by_category(c) returns the registry logos of category c,
\* each once and in registry order, for a member of LogoCategory and for a
\* string that spells a category name in any letter case, and the empty
\* list for any other string; the four category results together hold
\* every registry logo exactly once.
C21_CategoryResult ==
    /\ last.op = "get_logos_by_category"
        => /\ ret.t = "list"
           /\ ret.items = IF NamedCategory(last.arg) = "" THEN <<>>
                          ELSE OfCategory(NamedCategory(last.arg))
    /\ \A r \in Range(LOGO_REGISTRY) : Occurrences(r) = 1

\* the four files hold what update_all_formats makes of data
AllFilesEncode(data) ==
    /\ JsonFileEncodes(data)
    /\ IniFileEncodes(data)
    /\ files[CsvFile].st = "ok"
    /\ files[CsvFile].doc.rows # <<>>
    /\ files[TextFile] = File(content(data))

\* C22: in an editing session update_all_formats runs exactly once and as
\* the last action: not while the session goes on, and once, without an
\* error and on the record as the edits left it, in every session that has
\* ended, however many calls of interactive_edit it took.
C22_SaveOnceAtEnd ==
    /\ session.pc = "editing" => session.updates = 0
    /\ session.pc \in {"done", "crashed"}
        => /\ session.pc = "done"
           /\ session.updates = 1
           /\ raised = NoError
           /\ AllFilesEncode(company_data)

\* the files in the order in which update_all_formats writes them
WriteOrder == <<JsonFile, IniFile, CsvFile, TextFile>>

\* what a completed write of data leaves in file f
Encoding(f, data) ==
    IF f = JsonFile THEN File(JsonEncode(structured_data(data)))
    ELSE IF f = IniFile THEN File(config(data))
    ELSE IF f = CsvFile
    THEN File(CsvDoc(<<[i \in 1..Len(CsvSource) |-> ToStr(data[CsvSource[i]])]>>))
    ELSE File(content(data))

\* the step at which the exception exc left update_all_formats: a record
\* that lacks a field stops the first writer, a directory stops its own
FailedStep(exc) ==
    IF exc.type = "KeyError" THEN 1
    ELSE CHOOSE k \in 1..Len(WriteOrder) : WriteOrder[k] = exc.arg

UpdateCall == IOCall /\ last'.op \in {"update_all_formats", "main --update-all"}

\* C23: update_all_formats writes JSON, INI, CSV and text in that order from
\* the one record it was given: a call that completes leaves all four files
\* encoding that record; a call that fails at some step leaves the files of
\* the earlier steps encoding the record and the files of the later steps
\* as they were before the call.
C23_OrderedNoRollback ==
    [][UpdateCall =>
        IF raised' = NoError
        THEN \A k \in 1..Len(WriteOrder) :
                files'[WriteOrder[k]] = Encoding(WriteOrder[k], last'.data)
        ELSE LET step == FailedStep(raised')
             IN  /\ \A k \in 1..(step - 1) :
                        files'[WriteOrder[k]] = Encoding(WriteOrder[k], last'.data)
                 /\ \A k \in (step + 1)..Len(WriteOrder) :
                        files'[WriteOrder[k]] = files[WriteOrder[k]]]_vars

\* an update stopped by a directory in the place of the CSV file: the JSON
\* and INI files hold the new record, the text file the earlier one
C23_Witness ==
    /\ last.op = "update_all_formats"
    /\ raised = IsADirectoryError(CsvFile)
    /\ files[JsonFile] = Encoding(JsonFile, last.data)
    /\ files[IniFile] = Encoding(IniFile, last.data)
    /\ files[TextFile] = OldFiles[TextFile]
    /\ files[TextFile] # Encoding(TextFile, last.data)

\* the fields an editor may assign
OwnFields(op) ==
    Range(PromptFields(op))
    \cup (IF op = "edit_tax" THEN {"default_tax_rate"} ELSE {})

\* the call just made printed the rejection of its tax-rate answer
RateRejected == \E i \in DOMAIN console' : console'[i] = InvalidTaxRate

\* C24: a group editor changes fields of its own group only, every other
\* field of the record keeps its value; when edit_tax rejects the tax-rate
\* answer, default_tax_rate keeps its value and the vat_number and
\* tax_reference typed before it in the same call stay stored.
C24_EditorFrame ==
    [][EditStep =>
        /\ DOMAIN company_data' = DOMAIN company_data
        /\ \A f \in Fields \ OwnFields(last'.op) :
                company_data'[f] = company_data[f]
        /\ (last'.op = "edit_tax" /\ RateRejected)
            => /\ company_data'["default_tax_rate"]
                    = company_data["default_tax_rate"]
               /\ \A i \in DOMAIN last'.a :
                    last'.a[i] # ""
                    => company_data'[PromptFields("edit_tax")[i]]
                        = PyStr(last'.a[i])]_vars

\* edit_tax took a VAT number and then rejected the rate "abc"
C24_Witness ==
    /\ last.op = "edit_tax"
    /\ last.rate = "abc"
    /\ last.a[1] = "Acme"
    /\ Printed(InvalidTaxRate)
    /\ company_data["vat_number"] = PyStr("Acme")
    /\ company_data["default_tax_rate"] = DefaultData["default_tax_rate"]

====
